---- MODULE Spec2Model ----
(***************************************************************************)
(* Adaptive density compensation of the WaterStick comb processor, as the  *)
(* three analysis scripts compute it:                                      *)
(*   test_adaptive_compensation.py    simulate_adaptive_compensation       *)
(*   detailed_clustering_analysis.py  analyze_clustering_detailed, ...     *)
(*   analyze_tap_correlation.py       analyze_tap_clustering, ...          *)
(*                                                                         *)
(* Numbers.  The scripts compute in IEEE doubles.  The model computes in   *)
(* exact integers and rationals wherever the source value is rational, and *)
(* in fixed point where the source calls exp, log, sqrt or pow:            *)
(*   comb size       hundredths of a millisecond (comb_size_ms * 100)      *)
(*   tap ratio       units of 1/RatioScale (exact for patterns 0,3,5,15)   *)
(*   delays          units of 1/SubSample of a sample                      *)
(*   exp(-x)         units of 1/ExpScale, from a table over x in 1/ExpScale*)
(*   gains           rationals <<numerator, denominator>>                  *)
(* All intermediate products stay below 2^31.                              *)
(***************************************************************************)
EXTENDS Integers, Sequences, FiniteSets, TLC

\* ------------------------------------------------------------------------
\* Program constants
\* ------------------------------------------------------------------------
MAX_TAPS == 64
SAMPLE_RATE == 44100
kNumCombPatterns == 16

\* ------------------------------------------------------------------------
\* Bounds of the model: comb sizes 0, 0.01, ..., MaxCombHundredths/100 ms,
\* together with the comb sizes the scripts' main() functions use.
\* ------------------------------------------------------------------------
MaxCombHundredths == 4
\* Tap counts 1..MaxConcurrentTaps for the calls that run interleaved.
MaxConcurrentTaps == 3
\* Comb sizes of 1..MaxWholeSamples whole samples for the tap placement in doubles.
MaxWholeSamples == 68

\* The comb sizes the main() functions use (0.1 .. 10 ms), in hundredths of a ms.
MainCombSizes == {10, 20, 50, 100, 200, 500, 1000}
CombSizes == (0..MaxCombHundredths) \cup MainCombSizes

\* ------------------------------------------------------------------------
\* Fixed-point scales
\* ------------------------------------------------------------------------
RatioScale == MAX_TAPS * MAX_TAPS      \* a ratio r is stored as r * 4096
DelayScale == 10 * 10 * 10             \* delay_samples is stored in 1/1000 sample
SubSample == DelayScale * RatioScale   \* a tap delay is stored in 1/4096000 sample
ExpScale == 2^10                       \* exp(-x) and its argument, in 1/1024
FineScale == 2^15                      \* internal precision of Exp and Ln

Abs(a) == IF a < 0 THEN -a ELSE a
Min(a, b) == IF a < b THEN a ELSE b
CeilDiv(a, b) == (a + b - 1) \div b

\* Sum of f[lo..hi], by halving (the recursion depth stays logarithmic).
RECURSIVE SumRange(_, _, _)
SumRange(f, lo, hi) ==
    IF lo > hi THEN 0
    ELSE IF lo = hi THEN f[lo]
    ELSE LET mid == (lo + hi) \div 2
         IN SumRange(f, lo, mid) + SumRange(f, mid + 1, hi)

\* floor(sqrt(n)) by bisection on [lo, hi], lo*lo <= n < (hi+1)*(hi+1).
RECURSIVE ISqrtIn(_, _, _)
ISqrtIn(n, lo, hi) ==
    IF lo >= hi THEN lo
    ELSE LET mid == (lo + hi + 1) \div 2
         IN IF mid * mid <= n THEN ISqrtIn(n, mid, hi) ELSE ISqrtIn(n, lo, mid - 1)
ISqrt(n) == ISqrtIn(n, 0, Min(n, 46340))

\* exp(x) for 0 <= x <= 1, x and the result in 1/FineScale: the Taylor series
\* 1 + x + x^2/2! + ... (12 terms).
RECURSIVE ExpSeries(_, _, _)
ExpSeries(x, term, j) ==
    IF j > 12 \/ term = 0 THEN 0
    ELSE term + ExpSeries(x, (term * x) \div (FineScale * j), j + 1)
ExpPosFine(x) == ExpSeries(x, FineScale, 1)

\* exp(-x) for x >= 0, x and the result in 1/FineScale:
\* exp(-(n + f)) = (1 / exp(f)) / e^n.
RECURSIVE DivideByE(_, _)
DivideByE(v, n) ==
    IF n = 0 \/ v = 0 THEN v
    ELSE DivideByE((v * FineScale) \div ExpPosFine(FineScale), n - 1)
ExpNegFine(x) ==
    DivideByE((FineScale * FineScale) \div ExpPosFine(x % FineScale), x \div FineScale)

\* ln(m) for an integer m >= 1, in 1/FineScale: m = 2^e * q with 1 <= q < 2,
\* ln(q) = 2 * atanh((q-1)/(q+1)), ln(2) = 2 * atanh(1/3).
RECURSIVE AtanhSeries(_, _, _)
AtanhSeries(z, power, j) ==
    IF j > 21 \/ power = 0 THEN 0
    ELSE power \div j + AtanhSeries(z, (((power * z) \div FineScale) * z) \div FineScale, j + 2)
Atanh(num, den) ==
    LET z == (num * FineScale) \div den IN AtanhSeries(z, z, 1)
RECURSIVE FloorLog2(_)
FloorLog2(m) == IF m < 2 THEN 0 ELSE 1 + FloorLog2(m \div 2)
LnFine(m) ==
    LET e == FloorLog2(m)
        p == 2^e
    IN e * 2 * Atanh(1, 3) + 2 * Atanh(m - p, m + p)

\* exp(-x) for x >= 0 in 1/ExpScale, result in 1/ExpScale (rounded down).  The
\* table is evaluated once; beyond its last entry the result rounds to 0.
ExpTableLast == 7 * ExpScale
ExpNegTable ==
    [k \in 0..ExpTableLast |-> ExpNegFine(k * (FineScale \div ExpScale)) \div (FineScale \div ExpScale)]
ExpNeg(x) == IF x > ExpTableLast THEN 0 ELSE ExpNegTable[x]

\* ------------------------------------------------------------------------
\* Rationals <<numerator, denominator>>, denominator > 0, in lowest terms
\* ------------------------------------------------------------------------
RECURSIVE GCD(_, _)
GCD(a, b) == IF b = 0 THEN a ELSE GCD(b, a % b)
RNorm(n, d) == LET g == GCD(Abs(n), d) IN <<n \div g, d \div g>>
RAdd(a, b) ==
    LET l == (a[2] \div GCD(a[2], b[2])) * b[2]
    IN RNorm(a[1] * (l \div a[2]) + b[1] * (l \div b[2]), l)
RLeq(a, b) == a[1] * b[2] <= b[1] * a[2]
RLt(a, b) == a[1] * b[2] < b[1] * a[2]
RMin(a, b) == IF RLt(b, a) THEN b ELSE a
RMax(a, b) == IF RLt(a, b) THEN b ELSE a
RECURSIVE RSumRange(_, _, _)
RSumRange(f, lo, hi) ==
    IF lo > hi THEN <<0, 1>>
    ELSE IF lo = hi THEN f[lo]
    ELSE LET mid == (lo + hi) \div 2
         IN RAdd(RSumRange(f, lo, mid), RSumRange(f, mid + 1, hi))

\* ------------------------------------------------------------------------
\* IEEE 754 doubles, for the tap placement.  The scripts compute tap delays in
\* Python floats; the order of the multiplications decides the last bit.
\* A natural number is a sequence of limbs, least significant first, each
\* below LimbBase, without leading zero limbs; 0 is << >>.
\* ------------------------------------------------------------------------
LimbBits == 13
LimbBase == 2^LimbBits
MantissaBits == 53          \* a double has a 53-bit significand

RECURSIVE BigNorm(_)
BigNorm(n) ==
    IF n = << >> \/ n[Len(n)] # 0 THEN n ELSE BigNorm(SubSeq(n, 1, Len(n) - 1))

RECURSIVE BigFromInt(_)
BigFromInt(k) ==
    IF k = 0 THEN << >> ELSE <<k % LimbBase>> \o BigFromInt(k \div LimbBase)

RECURSIVE BigToInt(_)
BigToInt(n) ==
    IF n = << >> THEN 0 ELSE n[1] + LimbBase * BigToInt(Tail(n))

\* n * k for 0 <= k < 2^17
RECURSIVE BigMulCarry(_, _, _)
BigMulCarry(n, k, carry) ==
    IF n = << >> THEN BigFromInt(carry)
    ELSE LET v == n[1] * k + carry
         IN <<v % LimbBase>> \o BigMulCarry(Tail(n), k, v \div LimbBase)
BigMulSmall(n, k) == BigNorm(BigMulCarry(n, k, 0))

\* <<n \div d, n % d>> for 0 < d < 2^17
RECURSIVE BigDivFrom(_, _, _)
BigDivFrom(n, d, rem) ==
    IF n = << >> THEN <<<< >>, rem>>
    ELSE LET v == rem * LimbBase + n[Len(n)]
             rest == BigDivFrom(SubSeq(n, 1, Len(n) - 1), d, v % d)
         IN <<Append(rest[1], v \div d), rest[2]>>
BigDivSmall(n, d) ==
    LET qr == BigDivFrom(n, d, 0) IN <<BigNorm(qr[1]), qr[2]>>

RECURSIVE BitLength(_)
BitLength(k) == IF k = 0 THEN 0 ELSE 1 + BitLength(k \div 2)
BigBitLength(n) ==
    IF n = << >> THEN 0 ELSE (Len(n) - 1) * LimbBits + BitLength(n[Len(n)])

BigShiftLeft(n, bits) ==
    IF n = << >> THEN n
    ELSE [i \in 1..(bits \div LimbBits) |-> 0] \o BigMulSmall(n, 2^(bits % LimbBits))

\* <<n \div 2^bits, whether a bit shifted out was 1>>
BigShiftRightSticky(n, bits) ==
    LET limbs == bits \div LimbBits
    IN IF limbs >= Len(n) THEN <<<< >>, n # << >>>>
       ELSE LET qr == BigDivSmall(SubSeq(n, limbs + 1, Len(n)), 2^(bits % LimbBits))
            IN <<qr[1], qr[2] # 0 \/ \E i \in 1..limbs : n[i] # 0>>

BigIsOdd(n) == n # << >> /\ n[1] % 2 = 1

RECURSIVE BigAddOne(_)
BigAddOne(n) ==
    IF n = << >> THEN <<1>>
    ELSE IF n[1] + 1 < LimbBase THEN <<n[1] + 1>> \o Tail(n)
    ELSE <<0>> \o BigAddOne(Tail(n))

\* A double x >= 0 is [m, e] with value m * 2^e, where m has exactly
\* MantissaBits bits, or m = << >> for 0.0.  (No value of the placement is
\* subnormal, infinite or negative.)
\* The double nearest to (n + f) * 2^e, ties to even, where 0 <= f < 1 and
\* sticky tells whether f > 0; with sticky, n has more than MantissaBits + 1 bits.
RoundToDouble(n, e, sticky) ==
    LET len == BigBitLength(n)
    IN IF n = << >> THEN [m |-> << >>, e |-> 0]
       ELSE IF len <= MantissaBits
       THEN [m |-> BigShiftLeft(n, MantissaBits - len), e |-> e - (MantissaBits - len)]
       ELSE LET drop == len - (MantissaBits + 1)
                kept == BigShiftRightSticky(n, drop)      \* MantissaBits + 1 bits
                guard == BigIsOdd(kept[1])
                q == BigDivSmall(kept[1], 2)[1]
                up == guard /\ (kept[2] \/ sticky \/ BigIsOdd(q))
                r == IF up THEN BigAddOne(q) ELSE q
            IN IF BigBitLength(r) > MantissaBits
               THEN [m |-> BigDivSmall(r, 2)[1], e |-> e + drop + 2]
               ELSE [m |-> r, e |-> e + drop + 1]

\* float(k) for an integer 0 <= k < 2^31
DoubleFromInt(k) == RoundToDouble(BigFromInt(k), 0, FALSE)

\* x * k for the double of an integer 0 <= k < 2^17 (x * 44100.0)
DoubleTimesInt(x, k) == RoundToDouble(BigMulSmall(x.m, k), x.e, FALSE)

\* x * r for a tap ratio r = ratio / RatioScale that is exact as a double
DoubleTimesRatio(x, ratio) == RoundToDouble(BigMulSmall(x.m, ratio), x.e - 12, FALSE)

\* x / d for the double of an integer 0 < d < 2^17 (x / 1000.0)
DoubleOverInt(x, d) ==
    LET qr == BigDivSmall(BigShiftLeft(x.m, 2 * LimbBits), d)
    IN RoundToDouble(qr[1], x.e - 2 * LimbBits, qr[2] # 0)

\* int(x) for x >= 0
DoubleFloor(x) ==
    IF x.m = << >> THEN 0
    ELSE IF x.e >= 0 THEN BigToInt(BigShiftLeft(x.m, x.e))
    ELSE BigToInt(BigShiftRightSticky(x.m, -x.e)[1])

\* ------------------------------------------------------------------------
\* calculate_tap_ratio_for_pattern(tap_index, pattern), in 1/RatioScale.
\* The three scripts define it identically; the divisor is MAX_TAPS.
\* ------------------------------------------------------------------------
RatioFromFine(v) == v \div (FineScale \div RatioScale)
\* Variant: the linear and the quadratic branch exchanged.
calculate_tap_ratio_branches_swapped(tap_index, pattern) ==
    IF pattern \in {0, 5}
    THEN ((tap_index + 1) * (tap_index + 1) * RatioScale) \div (MAX_TAPS * MAX_TAPS)
    ELSE ((tap_index + 1) * RatioScale) \div MAX_TAPS

\* Variant: tap_index in place of tap_index + 1.
calculate_tap_ratio_zero_based(tap_index, pattern) ==
    IF pattern \in {3, 15}
    THEN (tap_index * tap_index * RatioScale) \div (MAX_TAPS * MAX_TAPS)
    ELSE (tap_index * RatioScale) \div MAX_TAPS

\* Variant: tap_index + 2 in place of tap_index + 1.
calculate_tap_ratio_one_past(tap_index, pattern) ==
    IF pattern \in {3, 15}
    THEN ((tap_index + 2) * (tap_index + 2) * RatioScale) \div (MAX_TAPS * MAX_TAPS)
    ELSE ((tap_index + 2) * RatioScale) \div MAX_TAPS

\* Variant: the logarithmic pattern as log(tap_index + 2) / log(MAX_TAPS + 1).
calculate_tap_ratio_log_shifted(tap_index, pattern) ==
    IF pattern = 1
    THEN (LnFine(tap_index + 2) * RatioScale) \div LnFine(MAX_TAPS + 1)
    ELSE ((tap_index + 1) * RatioScale) \div MAX_TAPS

calculate_tap_ratio_for_pattern(tap_index, pattern) ==
    IF pattern = 0 THEN
        ((tap_index + 1) * RatioScale) \div MAX_TAPS
    ELSE IF pattern = 1 THEN
        (LnFine(tap_index + 1) * RatioScale) \div LnFine(MAX_TAPS)
    ELSE IF pattern = 2 THEN
        ((ExpPosFine(((tap_index + 1) * FineScale) \div MAX_TAPS) - FineScale) * RatioScale)
            \div (ExpPosFine(FineScale) - FineScale)
    ELSE IF pattern = 3 THEN
        ((tap_index + 1) * (tap_index + 1) * RatioScale) \div (MAX_TAPS * MAX_TAPS)
    ELSE IF pattern = 4 THEN
        ISqrt(((tap_index + 1) * RatioScale * RatioScale) \div MAX_TAPS)
    ELSE
        \* pow(normalized_index, 1.0 + pattern_offset), pattern_offset = (pattern - 5) / 10
        \*   = exp(-(1 + pattern_offset) * (ln(MAX_TAPS) - ln(tap_index + 1)))
        IF pattern = 5 THEN ((tap_index + 1) * RatioScale) \div MAX_TAPS
        ELSE IF pattern = 15
        THEN ((tap_index + 1) * (tap_index + 1) * RatioScale) \div (MAX_TAPS * MAX_TAPS)
        ELSE RatioFromFine(ExpNegFine(
                 ((LnFine(MAX_TAPS) - LnFine(tap_index + 1)) * (10 + pattern - 5)) \div 10))

\* The ratios of all taps and patterns, evaluated once.
TapRatioTable ==
    [pattern \in 0..(kNumCombPatterns - 1) |->
        [tap_index \in 0..(MAX_TAPS - 1) |-> calculate_tap_ratio_for_pattern(tap_index, pattern)]]
TapRatio(tap_index, pattern) == TapRatioTable[pattern][tap_index]

\* ------------------------------------------------------------------------
\* Tap Delay Mapper
\* ------------------------------------------------------------------------
\* comb_size_seconds * SAMPLE_RATE with comb_size_seconds = comb_size_ms / 1000.0,
\* in 1/DelayScale sample (comb_size_hundredths = comb_size_ms * 100).
DelaySamples(comb_size_hundredths) == (comb_size_hundredths * SAMPLE_RATE) \div ((100 * 1000) \div DelayScale)

\* The delay of one tap in 1/SubSample sample: delay_samples * tap_ratio.
TapDelaySamples(comb_size_hundredths, tap, pattern) ==
    DelaySamples(comb_size_hundredths) * TapRatio(tap, pattern)

\* tap_delays as a sequence: element tap + 1 is the delay of tap `tap`.
TapDelays(comb_size_hundredths, num_taps, pattern) ==
    [k \in 1..num_taps |-> TapDelaySamples(comb_size_hundredths, k - 1, pattern)]

\* int(delay): the integer sample position; delay - int(delay): the fraction.
IntPosition(delay) == delay \div SubSample
Fraction(delay) == delay - IntPosition(delay) * SubSample

\* ------------------------------------------------------------------------
\* The tap placement in doubles, as each script computes it.  The patterns
\* are the ones whose ratios are exact doubles: (tap + 1) / 64 and its square.
\* ------------------------------------------------------------------------
PlacementPatterns == {0, 3}

\* The double of the comb size size[1] / size[2] ms.
CombSizeMs(size) == DoubleOverInt(DoubleFromInt(size[1]), size[2])

\* comb_size_seconds = comb_size_ms / 1000.0
CombSizeSeconds(comb_size_ms) == DoubleOverInt(comb_size_ms, 1000)

\* delay_samples = comb_size_seconds * SAMPLE_RATE
DoubleDelaySamples(comb_size_ms) == DoubleTimesInt(CombSizeSeconds(comb_size_ms), SAMPLE_RATE)

\* x > k for a double x >= 0 and an integer k
DoubleExceedsInt(x, k) ==
    LET floor == DoubleFloor(x)
    IN floor > k \/ (floor = k /\ DoubleFromInt(floor) # x)

\* delay_samples > num_taps * 2.0 in simulate_adaptive_compensation
PlacementEarlyExit(comb_size_ms, num_taps) ==
    DoubleExceedsInt(DoubleDelaySamples(comb_size_ms), 2 * num_taps)

\* simulate_adaptive_compensation:
\*   tap_delay = comb_size_seconds * tap_ratio; tap_delay_samples = tap_delay * SAMPLE_RATE
TestTapDelay(comb_size_ms, tap, pattern) ==
    DoubleTimesInt(DoubleTimesRatio(CombSizeSeconds(comb_size_ms), TapRatio(tap, pattern)),
                   SAMPLE_RATE)

\* analyze_tap_clustering: actual_delay = delay_samples * tap_ratio
ClusteringTapDelay(comb_size_ms, tap, pattern) ==
    DoubleTimesRatio(DoubleDelaySamples(comb_size_ms), TapRatio(tap, pattern))

\* analyze_clustering_detailed: actual_delay = delay_samples * tap_ratio
DetailedTapDelay(comb_size_ms, tap, pattern) ==
    DoubleTimesRatio(DoubleDelaySamples(comb_size_ms), TapRatio(tap, pattern))

\* The three functions before their tap loops.
EnterPlacementFrame(comb_size_ms, num_taps) ==
    [called |-> TRUE, comb_size_ms |-> comb_size_ms,
     early_exit |-> PlacementEarlyExit(comb_size_ms, num_taps),
     tap |-> 0,
     test_delays |-> << >>, test_positions |-> << >>, unique_positions |-> {},
     clustering_delays |-> << >>, clustering_positions |-> << >>,
     detailed_delays |-> << >>, detailed_positions |-> << >>]

\* One iteration of each tap loop, for tap frame.tap; simulate_adaptive_compensation
\* has returned before its loop on the early exit.
PlaceTapFrame(frame, pattern) ==
    LET test == TestTapDelay(frame.comb_size_ms, frame.tap, pattern)
        clust == ClusteringTapDelay(frame.comb_size_ms, frame.tap, pattern)
        detail == DetailedTapDelay(frame.comb_size_ms, frame.tap, pattern)
    IN [frame EXCEPT
          !.tap = @ + 1,
          !.test_delays = IF frame.early_exit THEN @ ELSE Append(@, test),
          !.test_positions = IF frame.early_exit THEN @ ELSE Append(@, DoubleFloor(test)),
          !.unique_positions = IF frame.early_exit THEN @ ELSE @ \cup {DoubleFloor(test)},
          !.clustering_delays = Append(@, clust),
          !.clustering_positions = Append(@, DoubleFloor(clust)),
          !.detailed_delays = Append(@, detail),
          !.detailed_positions = Append(@, DoubleFloor(detail))]

\* exp(-delay_diff) and exp(-frac_diff * 10.0), the differences in 1/SubSample
\* sample; a non-zero difference never rounds to the argument 0.
ExpNegDelay(diff) == ExpNeg(CeilDiv(diff, SubSample \div ExpScale))
ExpNegFraction10(diff) == ExpNeg(CeilDiv(diff * 10, SubSample \div ExpScale))

\* ------------------------------------------------------------------------
\* test_adaptive_compensation.py: simulate_adaptive_compensation
\* ------------------------------------------------------------------------
\* Variant: if delay_samples > num_taps
EarlyExitAtTapCount(comb_size_hundredths, num_taps) ==
    DelaySamples(comb_size_hundredths) > num_taps * DelayScale

\* if delay_samples > num_taps * 2.0
EarlyExit(comb_size_hundredths, num_taps) ==
    DelaySamples(comb_size_hundredths) > num_taps * 2 * DelayScale

\* Variant: the delay itself is added, not int(delay).
UniquePositionsOfDelays(tap_delays) ==
    {tap_delays[k] : k \in DOMAIN tap_delays}

\* unique_positions after the loop over the taps
UniquePositions(tap_delays) ==
    {IntPosition(tap_delays[k]) : k \in DOMAIN tap_delays}

\* total_correlation after the loop: the sum over tap > 0 of exp(-delay_diff)
TotalCorrelation(tap_delays) ==
    SumRange([k \in DOMAIN tap_delays |->
                 IF k > 1 THEN ExpNegDelay(Abs(tap_delays[k] - tap_delays[k - 1])) ELSE 0],
             1, Len(tap_delays))

\* num_taps / len(unique_positions) if len(unique_positions) > 0 else 1.0, in 1/ExpScale
PositionClusteringFactor(num_taps, unique_positions) ==
    IF Cardinality(unique_positions) > 0
    THEN (num_taps * ExpScale) \div Cardinality(unique_positions)
    ELSE ExpScale

\* Variant: the default for a single tap is 1.0.
AverageCorrelationDefaultOne(total_correlation, num_taps) ==
    IF num_taps > 1 THEN total_correlation \div (num_taps - 1) ELSE ExpScale

\* total_correlation / (num_taps - 1) if num_taps > 1 else 0.0, in 1/ExpScale
AverageCorrelation(total_correlation, num_taps) ==
    IF num_taps > 1 THEN total_correlation \div (num_taps - 1) ELSE 0

\* Variant: 1.0 + average_correlation * 4.0
CorrelationFactorTimesFour(average_correlation) == ExpScale + average_correlation * 4

\* 1.0 + average_correlation * 2.0, in 1/ExpScale
CorrelationFactor(average_correlation) == ExpScale + average_correlation * 2

\* sqrt(position_clustering_factor * correlation_factor), in 1/ExpScale
AdaptiveFactor(position_clustering_factor, correlation_factor) ==
    ISqrt(((position_clustering_factor * correlation_factor) \div ExpScale) * ExpScale)

\* Variant: only the upper clamp, min(max_gain, adaptive_density_gain).
ClampGainUpperOnly(adaptive_density_gain, base_density_gain) ==
    RMin(base_density_gain, adaptive_density_gain)

\* max(min_gain, min(max_gain, adaptive_density_gain)) with
\* min_gain = base_density_gain * 0.1 and max_gain = base_density_gain
ClampGain(adaptive_density_gain, base_density_gain) ==
    LET min_gain == RNorm(base_density_gain[1], base_density_gain[2] * 10)
        max_gain == base_density_gain
    IN RMax(min_gain, RMin(max_gain, adaptive_density_gain))

\* The whole function.  It returns (adaptive_density_gain, adaptive_factor); the
\* record also keeps the locals the function computed on the way.
simulate_adaptive_compensation(comb_size_hundredths, num_taps, pattern) ==
    LET base_density_gain == <<1, num_taps>>
    IN IF EarlyExit(comb_size_hundredths, num_taps)
       THEN [called |-> TRUE, early_exit |-> TRUE,
             tap_delays |-> << >>, unique_positions |-> {},
             total_correlation |-> 0,
             adaptive_density_gain |-> base_density_gain,
             adaptive_factor |-> ExpScale]
       ELSE LET tap_delays == TapDelays(comb_size_hundredths, num_taps, pattern)
                unique_positions == UniquePositions(tap_delays)
                total_correlation == TotalCorrelation(tap_delays)
                position_clustering_factor ==
                    PositionClusteringFactor(num_taps, unique_positions)
                average_correlation == AverageCorrelation(total_correlation, num_taps)
                correlation_factor == CorrelationFactor(average_correlation)
                adaptive_factor ==
                    AdaptiveFactor(position_clustering_factor, correlation_factor)
                adaptive_density_gain ==
                    RNorm(base_density_gain[1] * ExpScale,
                          base_density_gain[2] * adaptive_factor)
            IN [called |-> TRUE, early_exit |-> FALSE,
                tap_delays |-> tap_delays, unique_positions |-> unique_positions,
                total_correlation |-> total_correlation,
                adaptive_density_gain |-> ClampGain(adaptive_density_gain, base_density_gain),
                adaptive_factor |-> adaptive_factor]

\* ------------------------------------------------------------------------
\* Calls of simulate_adaptive_compensation that run interleaved (a preview and
\* a live caller).  Each call has a frame with its arguments and its locals;
\* a step of a call is the function entry (lines 33-45), one iteration of the
\* loop over the taps (lines 48-63) or the code after the loop (lines 65-84).
\* ------------------------------------------------------------------------
\* The patterns of the test cases of main().
TestPatterns == {0, 1, 3}

\* The frame of a call that has not started.
NewFrame(comb_size_hundredths, num_taps, pattern) ==
    [pc |-> "entry",
     comb_size_hundredths |-> comb_size_hundredths, num_taps |-> num_taps, pattern |-> pattern,
     tap |-> 0, tap_delays |-> << >>, unique_positions |-> {}, total_correlation |-> 0,
     overlapped |-> FALSE,      \* the call took a step while another was in its loop
     result |-> << >>]

\* Variant: unique_positions is one set of the module, shared by all calls.
SharedUniquePositions(frames, c) ==
    UNION {frames[d].unique_positions : d \in DOMAIN frames}

\* unique_positions is a local of the call: unique_positions = set()
LocalUniquePositions(frames, c) == frames[c].unique_positions

\* Another call is inside its loop.
OtherInLoop(frames, c) == \E d \in DOMAIN frames : d # c /\ frames[d].pc = "loop"

\* Lines 33-45: the early exit returns; otherwise the locals are initialised.
EnterFrame(frames, c) ==
    LET f == frames[c]
    IN IF EarlyExit(f.comb_size_hundredths, f.num_taps)
       THEN [f EXCEPT !.pc = "returned",
                      !.overlapped = @ \/ OtherInLoop(frames, c),
                      !.result = <<<<1, f.num_taps>>, ExpScale>>]
       ELSE [f EXCEPT !.pc = "loop",
                      !.overlapped = @ \/ OtherInLoop(frames, c),
                      !.tap = 0, !.tap_delays = << >>,
                      !.unique_positions = {}, !.total_correlation = 0]

\* Lines 48-63: one iteration of "for tap in range(num_taps)".
LoopFrame(frames, c) ==
    LET f == frames[c]
        tap_delay_samples == TapDelaySamples(f.comb_size_hundredths, f.tap, f.pattern)
        correlation ==
            IF f.tap > 0
            THEN ExpNegDelay(Abs(tap_delay_samples - f.tap_delays[f.tap]))
            ELSE 0
    IN [f EXCEPT !.tap = @ + 1,
                 !.overlapped = @ \/ OtherInLoop(frames, c),
                 !.tap_delays = Append(@, tap_delay_samples),
                 !.unique_positions =
                     LocalUniquePositions(frames, c) \cup {IntPosition(tap_delay_samples)},
                 !.total_correlation = @ + correlation]

\* Lines 65-84: the factors, the clamp and the return.
FinishFrame(frames, c) ==
    LET f == frames[c]
        base_density_gain == <<1, f.num_taps>>
        position_clustering_factor ==
            PositionClusteringFactor(f.num_taps, LocalUniquePositions(frames, c))
        average_correlation == AverageCorrelation(f.total_correlation, f.num_taps)
        correlation_factor == CorrelationFactor(average_correlation)
        adaptive_factor == AdaptiveFactor(position_clustering_factor, correlation_factor)
        adaptive_density_gain ==
            RNorm(base_density_gain[1] * ExpScale, base_density_gain[2] * adaptive_factor)
    IN [f EXCEPT !.pc = "returned",
                 !.overlapped = @ \/ OtherInLoop(frames, c),
                 !.result = <<ClampGain(adaptive_density_gain, base_density_gain),
                              adaptive_factor>>]

\* ------------------------------------------------------------------------
\* detailed_clustering_analysis.py: analyze_clustering_detailed
\* ------------------------------------------------------------------------
\* The entry appended for one tap: {'tap_index', 'delay', 'fraction'}.
GroupEntry(tap_idx, delay) ==
    [tap_index |-> tap_idx, delay |-> delay, fraction |-> Fraction(delay)]

\* Variant: position_groups[pos] = [entry] in place of append.
PositionGroupsOverwrite(tap_delays) ==
    [pos \in {IntPosition(tap_delays[k]) : k \in DOMAIN tap_delays} |->
        LET last == CHOOSE k \in DOMAIN tap_delays :
                        /\ IntPosition(tap_delays[k]) = pos
                        /\ \A j \in DOMAIN tap_delays :
                              IntPosition(tap_delays[j]) = pos => j <= k
        IN <<GroupEntry(last - 1, tap_delays[last])>>]

\* position_groups: position -> the entries appended for it, in tap order.
PositionGroups(tap_delays) ==
    LET entries == [k \in DOMAIN tap_delays |-> GroupEntry(k - 1, tap_delays[k])]
    IN [pos \in {IntPosition(tap_delays[k]) : k \in DOMAIN tap_delays} |->
           SelectSeq(entries, LAMBDA e : IntPosition(e.delay) = pos)]

\* The positions in the order the dictionary iterates them (first insertion).
PositionOrder(tap_delays) ==
    LET firsts == SelectSeq([k \in DOMAIN tap_delays |-> k],
                            LAMBDA k : \A j \in 1..(k - 1) :
                                IntPosition(tap_delays[j]) # IntPosition(tap_delays[k]))
    IN [g \in DOMAIN firsts |-> IntPosition(tap_delays[firsts[g]])]

\* Variant: the pairs with i = j left out.
GroupCorrelationNoSelfPairs(group) ==
    SumRange([i \in DOMAIN group |->
                 SumRange([j \in DOMAIN group |->
                              IF i = j THEN 0
                              ELSE ExpNegFraction10(Abs(group[i].fraction - group[j].fraction))],
                          1, Len(group))],
             1, Len(group))

\* group_correlation: the sum over all ordered pairs (i, j) of the group, self
\* pairs included, of exp(-frac_diff * 10.0); in 1/ExpScale.
GroupCorrelation(group) ==
    SumRange([i \in DOMAIN group |->
                 SumRange([j \in DOMAIN group |->
                              ExpNegFraction10(Abs(group[i].fraction - group[j].fraction))],
                          1, Len(group))],
             1, Len(group))

\* Variant: the average divides by len(group), not by len(group)^2.
EffectiveTapsUnsquared(group) ==
    IF Len(group) = 1 THEN <<1, 1>>
    ELSE RNorm(Len(group) * GroupCorrelation(group), Len(group) * ExpScale)

\* What one position group adds to total_effective_gain, as a rational:
\* 1.0 for a single tap, else len(group) * (group_correlation / len(group)^2).
EffectiveTaps(group) ==
    IF Len(group) = 1 THEN <<1, 1>>
    ELSE RNorm(Len(group) * GroupCorrelation(group), Len(group) * Len(group) * ExpScale)

TotalEffectiveGain(position_groups, order) ==
    RSumRange([g \in DOMAIN order |-> EffectiveTaps(position_groups[order[g]])],
              1, Len(order))

\* The whole function (the correlation_matrix it also returns is read by no
\* operation of the scripts and is not kept).
analyze_clustering_detailed(comb_size_hundredths, num_taps, pattern) ==
    LET tap_delays == TapDelays(comb_size_hundredths, num_taps, pattern)
        position_groups == PositionGroups(tap_delays)
        total_effective_gain ==
            TotalEffectiveGain(position_groups, PositionOrder(tap_delays))
    IN [called |-> TRUE,
        num_taps |-> num_taps,
        delay_samples |-> DelaySamples(comb_size_hundredths),
        tap_delays |-> tap_delays,
        position_groups |-> position_groups,
        gain_multiplication |->
            RNorm(total_effective_gain[1], total_effective_gain[2] * num_taps),
        total_effective_gain |-> total_effective_gain]

\* ------------------------------------------------------------------------
\* detailed_clustering_analysis.py: recommend_max_taps
\* ------------------------------------------------------------------------
\* max_safe_clustering = 3.0
MaxSafeClustering == <<3, 1>>

\* analysis['gain_multiplication'] > max_safe_clustering
ExceedsSafeClustering(gain_multiplication) ==
    RLt(MaxSafeClustering, gain_multiplication)

\* The scan "for test_taps in range(1, MAX_TAPS + 1)": test_taps - 1 for the
\* first test_taps whose linear-pattern analysis exceeds the threshold, MAX_TAPS
\* when the loop runs to its end.
ScanMaxTaps(comb_size_hundredths) ==
    LET exceeding ==
            {test_taps \in 1..MAX_TAPS :
                ExceedsSafeClustering(
                    analyze_clustering_detailed(comb_size_hundredths, test_taps, 0).gain_multiplication)}
    IN IF exceeding = {} THEN MAX_TAPS
       ELSE (CHOOSE t \in exceeding : \A u \in exceeding : t <= u) - 1

\* The scan of every comb size main() passes (test_sizes), evaluated once.
ScanMaxTapsTable == [h \in MainCombSizes |-> ScanMaxTaps(h)]

\* The whole function.  max_taps_simple = int(delay_samples / min_spacing_samples)
\* is computed and not used for the result.
recommend_max_taps(comb_size_hundredths, min_spacing_samples) ==
    [called |-> TRUE,
     min_spacing_samples |-> min_spacing_samples,
     max_taps_simple |-> DelaySamples(comb_size_hundredths) \div (min_spacing_samples * DelayScale),
     value |-> ScanMaxTapsTable[comb_size_hundredths]]

\* ------------------------------------------------------------------------
\* analyze_tap_correlation.py: analyze_tap_clustering and
\* calculate_effective_gain_multiplication
\* ------------------------------------------------------------------------
\* position_counts: position -> number of taps reading it
PositionCounts(tap_positions) ==
    [pos \in {tap_positions[k] : k \in DOMAIN tap_positions} |->
        Cardinality({k \in DOMAIN tap_positions : tap_positions[k] = pos})]

\* correlations: exp(-delay_diff) of each tap with its predecessor, in 1/ExpScale
Correlations(tap_delays) ==
    [k \in 1..(Len(tap_delays) - 1) |->
        ExpNegDelay(Abs(tap_delays[k + 1] - tap_delays[k]))]

\* np.mean(correlations) if correlations else 0, in 1/ExpScale
AvgCorrelation(correlations) ==
    IF Len(correlations) > 0
    THEN SumRange(correlations, 1, Len(correlations)) \div Len(correlations)
    ELSE 0

analyze_tap_clustering(comb_size_hundredths, num_taps, pattern) ==
    LET tap_delays == TapDelays(comb_size_hundredths, num_taps, pattern)
        tap_positions == [k \in DOMAIN tap_delays |-> IntPosition(tap_delays[k])]
        tap_fractions == [k \in DOMAIN tap_delays |-> Fraction(tap_delays[k])]
        position_counts == PositionCounts(tap_positions)
        correlations == Correlations(tap_delays)
    IN [called |-> TRUE,
        num_taps |-> num_taps,
        delay_samples |-> DelaySamples(comb_size_hundredths),
        tap_delays |-> tap_delays,
        tap_positions |-> tap_positions,
        tap_fractions |-> tap_fractions,
        unique_positions |-> Cardinality(DOMAIN position_counts),
        max_taps_per_position |->
            CHOOSE m \in {position_counts[q] : q \in DOMAIN position_counts} :
                \A q \in DOMAIN position_counts : position_counts[q] <= m,
        position_counts |-> position_counts,
        avg_correlation |-> AvgCorrelation(correlations),
        correlations |-> correlations]

\* total_gain_factor / ideal_gain_factor: the sum of count * count over the
\* positions, divided by num_taps; a rational.
calculate_effective_gain_multiplication(analysis) ==
    LET counts == analysis.position_counts
        total_gain_factor ==
            SumRange([k \in DOMAIN analysis.tap_positions |->
                         \* each position once, at the first tap that reads it
                         IF \A j \in 1..(k - 1) :
                                analysis.tap_positions[j] # analysis.tap_positions[k]
                         THEN counts[analysis.tap_positions[k]] * counts[analysis.tap_positions[k]]
                         ELSE 0],
                     1, Len(analysis.tap_positions))
    IN RNorm(total_gain_factor, analysis.num_taps)

\* weight_similarity is stored in 1/WeightScale.
WeightScale == 2 * SubSample

\* 1.0 - abs((weight1_a - weight2_a) + (weight1_b - weight2_b)) / 2.0 for the
\* fractions frac1 and frac2 of two adjacent taps, in 1/WeightScale.
WeightSimilarity(frac1, frac2) ==
    LET weight1_a == SubSample - frac1
        weight1_b == frac1
        weight2_a == SubSample - frac2
        weight2_b == frac2
    IN WeightScale - Abs((weight1_a - weight2_a) + (weight1_b - weight2_b))

\* artifacts: the weight_similarity of every tap i whose successor reads the
\* same integer position, kept under the index i; avg_artifact: np.mean(artifacts)
\* if artifacts else 0, a rational.
analyze_interpolation_artifacts(analysis) ==
    LET shared == {i \in 1..(Len(analysis.tap_fractions) - 1) :
                      analysis.tap_positions[i] = analysis.tap_positions[i + 1]}
        artifacts == [i \in shared |->
                         WeightSimilarity(analysis.tap_fractions[i],
                                          analysis.tap_fractions[i + 1])]
        total == SumRange([i \in 1..Len(analysis.tap_fractions) |->
                              IF i \in shared THEN artifacts[i] ELSE 0],
                          1, Len(analysis.tap_fractions))
    IN [called |-> TRUE,
        artifacts |-> artifacts,
        avg_artifact |-> IF shared # {}
                         THEN RNorm(total, Cardinality(shared) * WeightScale)
                         ELSE <<0, 1>>]

\* ------------------------------------------------------------------------
\* The state: one run of one script on one TapSet
\* ------------------------------------------------------------------------
VARIABLES
    script,             \* which script runs: "test", "detailed" or "correlation"
    comb_size,          \* the TapSet: the comb size in hundredths of a ms (comb_size_ms * 100)
    tap_count,          \*             the number of active taps (num_taps)
    pattern_id,         \*             the pattern
    compensation,       \* result of simulate_adaptive_compensation
    detailed,           \* result of analyze_clustering_detailed
    clustering,         \* result of analyze_tap_clustering
    gain_mult,          \* result of calculate_effective_gain_multiplication
    max_taps,           \* result of recommend_max_taps
    calls,              \* the frames of the calls of simulate_adaptive_compensation in progress
    placement,          \* the tap placement of the three scripts for one TapSet
    interp_artifacts    \* result of analyze_interpolation_artifacts

vars == <<script, comb_size, tap_count, pattern_id,
          compensation, detailed, clustering, gain_mult, max_taps, calls, placement,
          interp_artifacts>>

NotCalled == [called |-> FALSE]

Init ==
    /\ script \in {"test", "detailed", "correlation"}
    /\ comb_size \in CombSizes
    /\ tap_count \in 1..MAX_TAPS
    /\ pattern_id \in 0..(kNumCombPatterns - 1)
    /\ compensation = NotCalled
    /\ detailed = NotCalled
    /\ clustering = NotCalled
    /\ gain_mult = NotCalled
    /\ interp_artifacts = NotCalled
    /\ max_taps = NotCalled
    /\ calls = << >>
    /\ placement = NotCalled

\* test_adaptive_compensation.py main(): simulate_adaptive_compensation(...)
SimulateAdaptiveCompensation ==
    /\ script = "test"
    /\ ~compensation.called
    /\ compensation' = simulate_adaptive_compensation(comb_size, tap_count, pattern_id)
    /\ UNCHANGED <<script, comb_size, tap_count, pattern_id, detailed, clustering, gain_mult,
                 max_taps, calls, placement, interp_artifacts>>

\* detailed_clustering_analysis.py main(): analyze_clustering_detailed(...)
AnalyzeClusteringDetailed ==
    /\ script = "detailed"
    /\ ~detailed.called
    /\ detailed' = analyze_clustering_detailed(comb_size, tap_count, pattern_id)
    /\ UNCHANGED <<script, comb_size, tap_count, pattern_id, compensation, clustering, gain_mult,
                 max_taps, calls, placement, interp_artifacts>>

\* analyze_tap_correlation.py main(): analyze_tap_clustering(...)
AnalyzeTapClustering ==
    /\ script = "correlation"
    /\ ~clustering.called
    /\ clustering' = analyze_tap_clustering(comb_size, tap_count, pattern_id)
    /\ UNCHANGED <<script, comb_size, tap_count, pattern_id, compensation, detailed, gain_mult,
                 max_taps, calls, placement, interp_artifacts>>

\* analyze_tap_correlation.py main(): calculate_effective_gain_multiplication(analysis)
CalculateEffectiveGainMultiplication ==
    /\ script = "correlation"
    /\ clustering.called
    /\ ~gain_mult.called
    /\ gain_mult' = [called |-> TRUE,
                     value |-> calculate_effective_gain_multiplication(clustering)]
    /\ UNCHANGED <<script, comb_size, tap_count, pattern_id, compensation, detailed, clustering,
                 max_taps, calls, placement, interp_artifacts>>

\* detailed_clustering_analysis.py main(): recommend_max_taps(size, 1.0) and
\* recommend_max_taps(size, 2.0), after the analyses of the critical cases.
RecommendMaxTaps ==
    /\ script = "detailed"
    /\ detailed.called
    /\ ~max_taps.called
    /\ comb_size \in MainCombSizes
    /\ \E min_spacing_samples \in {1, 2} :
          max_taps' = recommend_max_taps(comb_size, min_spacing_samples)
    /\ UNCHANGED <<script, comb_size, tap_count, pattern_id, compensation, detailed,
                   clustering, gain_mult, calls, placement, interp_artifacts>>

\* analyze_tap_correlation.py main(): analyze_interpolation_artifacts(analysis),
\* after calculate_effective_gain_multiplication
AnalyzeInterpolationArtifacts ==
    /\ script = "correlation"
    /\ clustering.called
    /\ gain_mult.called
    /\ ~interp_artifacts.called
    /\ interp_artifacts' = analyze_interpolation_artifacts(clustering)
    /\ UNCHANGED <<script, comb_size, tap_count, pattern_id, compensation, detailed, clustering,
                   gain_mult, max_taps, calls, placement>>

Next ==
    \/ SimulateAdaptiveCompensation
    \/ AnalyzeClusteringDetailed
    \/ RecommendMaxTaps
    \/ AnalyzeTapClustering
    \/ CalculateEffectiveGainMultiplication
    \/ AnalyzeInterpolationArtifacts

Spec == Init /\ [][Next]_vars

\* One script alone: the same operations, from the initial states of that script.
InitTest == Init /\ script = "test"
NextTest == SimulateAdaptiveCompensation
SpecTest == InitTest /\ [][NextTest]_vars

InitDetailed == Init /\ script = "detailed"
NextDetailed == AnalyzeClusteringDetailed \/ RecommendMaxTaps
SpecDetailed == InitDetailed /\ [][NextDetailed]_vars

InitCorrelation == Init /\ script = "correlation"
NextCorrelation ==
    \/ AnalyzeTapClustering
    \/ CalculateEffectiveGainMultiplication
    \/ AnalyzeInterpolationArtifacts
SpecCorrelation == InitCorrelation /\ [][NextCorrelation]_vars

\* Two calls of simulate_adaptive_compensation, interleaved step by step.
\* The TapSet variables hold the arguments of the first call.
ConcurrentTapSets ==
    ((0..MaxCombHundredths) \cup {10}) \X (1..MaxConcurrentTaps) \X TestPatterns

InitConcurrent ==
    /\ script = "concurrent"
    /\ \E first, second \in ConcurrentTapSets :
          /\ comb_size = first[1] /\ tap_count = first[2] /\ pattern_id = first[3]
          /\ calls = <<NewFrame(first[1], first[2], first[3]),
                       NewFrame(second[1], second[2], second[3])>>
    /\ compensation = NotCalled
    /\ detailed = NotCalled
    /\ clustering = NotCalled
    /\ gain_mult = NotCalled
    /\ interp_artifacts = NotCalled
    /\ max_taps = NotCalled
    /\ placement = NotCalled

EnterCall(c) ==
    /\ calls[c].pc = "entry"
    /\ calls' = [calls EXCEPT ![c] = EnterFrame(calls, c)]
    /\ UNCHANGED <<script, comb_size, tap_count, pattern_id, compensation, detailed,
                   clustering, gain_mult, max_taps, placement, interp_artifacts>>

LoopStep(c) ==
    /\ calls[c].pc = "loop"
    /\ calls[c].tap < calls[c].num_taps
    /\ calls' = [calls EXCEPT ![c] = LoopFrame(calls, c)]
    /\ UNCHANGED <<script, comb_size, tap_count, pattern_id, compensation, detailed,
                   clustering, gain_mult, max_taps, placement, interp_artifacts>>

FinishCall(c) ==
    /\ calls[c].pc = "loop"
    /\ calls[c].tap = calls[c].num_taps
    /\ calls' = [calls EXCEPT ![c] = FinishFrame(calls, c)]
    /\ UNCHANGED <<script, comb_size, tap_count, pattern_id, compensation, detailed,
                   clustering, gain_mult, max_taps, placement, interp_artifacts>>

NextConcurrent ==
    \/ \E c \in DOMAIN calls : EnterCall(c)
    \/ \E c \in DOMAIN calls : LoopStep(c)
    \/ \E c \in DOMAIN calls : FinishCall(c)

SpecConcurrent == InitConcurrent /\ [][NextConcurrent]_vars

\* The tap loops of simulate_adaptive_compensation, analyze_tap_clustering and
\* analyze_clustering_detailed side by side on one TapSet of MAX_TAPS taps, in
\* doubles.  No iteration reads num_taps, so after k steps the state holds the
\* placement of every call with k taps that reaches its loop.
PlacementSizes ==
    {<<h, 100>> : h \in CombSizes} \cup {<<1000 * w, SAMPLE_RATE>> : w \in 1..MaxWholeSamples}

InitPlacement ==
    /\ script = "placement"
    /\ \E size \in PlacementSizes :
          /\ comb_size = (100 * size[1]) \div size[2]
          /\ placement = [called |-> FALSE, comb_size_ms |-> CombSizeMs(size)]
    /\ tap_count = MAX_TAPS
    /\ pattern_id \in PlacementPatterns
    /\ compensation = NotCalled
    /\ detailed = NotCalled
    /\ clustering = NotCalled
    /\ gain_mult = NotCalled
    /\ interp_artifacts = NotCalled
    /\ max_taps = NotCalled
    /\ calls = << >>

EnterPlacement ==
    /\ script = "placement"
    /\ ~placement.called
    /\ placement' = EnterPlacementFrame(placement.comb_size_ms, tap_count)
    /\ UNCHANGED <<script, comb_size, tap_count, pattern_id, compensation, detailed,
                   clustering, gain_mult, max_taps, calls, interp_artifacts>>

PlaceTap ==
    /\ script = "placement"
    /\ placement.called
    /\ placement.tap < tap_count
    /\ placement' = PlaceTapFrame(placement, pattern_id)
    /\ UNCHANGED <<script, comb_size, tap_count, pattern_id, compensation, detailed,
                   clustering, gain_mult, max_taps, calls, interp_artifacts>>

NextPlacement == EnterPlacement \/ PlaceTap

SpecPlacement == InitPlacement /\ [][NextPlacement]_vars

\* ------------------------------------------------------------------------
\* Vocabulary of the properties
\* ------------------------------------------------------------------------
\* combSizeSeconds * sampleRate > 2 * N, from the TapSet alone
\* (comb_size / 100000 seconds).
SpanExceedsTwiceTaps == comb_size * SAMPLE_RATE > 2 * tap_count * 100000

\* Two taps of a delay sequence share an integer sample position.
SharePosition(tap_delays) ==
    \E j, k \in DOMAIN tap_delays :
        j < k /\ tap_delays[j] \div SubSample = tap_delays[k] \div SubSample

\* r times the integer k, for a rational r.
RTimesInt(r, k) == LET g == GCD(k, r[2]) IN <<r[1] * (k \div g), r[2] \div g>>

\* ------------------------------------------------------------------------
\* C1: the gain returned by simulate_adaptive_compensation lies in
\* [0.1 * (1/N), 1/N], on the early-exit path and on the full clustering path.
\* ------------------------------------------------------------------------
C1_GainWithinBounds ==
    compensation.called =>
        /\ RLeq(<<1, 10 * tap_count>>, compensation.adaptive_density_gain)
        /\ RLeq(compensation.adaptive_density_gain, <<1, tap_count>>)

\* The full path with the lower clamp active (adaptive_factor above 10).
C1_Witness ==
    /\ compensation.called
    /\ ~compensation.early_exit
    /\ compensation.adaptive_factor > 10 * ExpScale
    /\ compensation.adaptive_density_gain = <<1, 10 * tap_count>>

C4_Original ==
    (detailed.called /\ pattern_id \in {0, 3}) =>
        detailed.tap_delays[tap_count] = detailed.delay_samples * RatioScale

\* C4 amended: the divisor is MAX_TAPS.  For pattern 0 the delay of tap i is
\* delay_samples * (i+1)/64, for pattern 3 delay_samples * ((i+1)/64)^2; the last
\* active tap has ratio N/64 (pattern 3: (N/64)^2) and, for a comb size above 0,
\* reaches the full comb size exactly when N = 64.
C4_RatioOverMaxTaps ==
    (detailed.called /\ pattern_id \in {0, 3}) =>
        /\ pattern_id = 0 =>
              \A k \in 1..tap_count :
                  detailed.tap_delays[k]
                      = detailed.delay_samples * k * (RatioScale \div MAX_TAPS)
        /\ pattern_id = 3 =>
              \A k \in 1..tap_count :
                  detailed.tap_delays[k]
                      = detailed.delay_samples * k * k * (RatioScale \div (MAX_TAPS * MAX_TAPS))
        /\ comb_size > 0 =>
              (detailed.tap_delays[tap_count] = detailed.delay_samples * RatioScale
                  <=> tap_count = MAX_TAPS)

C4_Witness ==
    /\ detailed.called /\ pattern_id = 0 /\ comb_size > 0
    /\ tap_count < MAX_TAPS
    /\ detailed.tap_delays[tap_count] < detailed.delay_samples * RatioScale

\* ------------------------------------------------------------------------
\* C5: the position groups partition the taps: every tap index 0..N-1 is in
\* exactly one group, the group sizes sum to N, and every tap of a group has
\* floor(delay) equal to the group's key.  (analyze_tap_clustering: the
\* position counts sum to N.)
\* ------------------------------------------------------------------------
GroupIndices(group) == {group[j].tap_index : j \in DOMAIN group}

C5_GroupsPartitionTaps ==
    /\ detailed.called =>
          LET groups == detailed.position_groups
          IN /\ UNION {GroupIndices(groups[pos]) : pos \in DOMAIN groups} = 0..(tap_count - 1)
             /\ \A p, q \in DOMAIN groups :
                   p # q => GroupIndices(groups[p]) \cap GroupIndices(groups[q]) = {}
             /\ \A pos \in DOMAIN groups :
                   /\ Len(groups[pos]) >= 1
                   /\ Cardinality(GroupIndices(groups[pos])) = Len(groups[pos])
                   /\ \A j \in DOMAIN groups[pos] :
                         /\ pos * SubSample <= groups[pos][j].delay
                         /\ groups[pos][j].delay < (pos + 1) * SubSample
                         /\ groups[pos][j].delay
                               = detailed.tap_delays[groups[pos][j].tap_index + 1]
             /\ Cardinality({<<pos, j>> \in (DOMAIN groups) \X (1..tap_count) :
                                j <= Len(groups[pos])}) = tap_count
    /\ clustering.called =>
          /\ \A k \in 1..tap_count :
                clustering.tap_positions[k] \in DOMAIN clustering.position_counts
          /\ Cardinality({<<pos, c>> \in (DOMAIN clustering.position_counts) \X (1..tap_count) :
                             c <= clustering.position_counts[pos]}) = tap_count

\* Several groups, one of them with more than one tap.
C5_Witness ==
    /\ detailed.called
    /\ Cardinality(DOMAIN detailed.position_groups) >= 3
    /\ \E pos \in DOMAIN detailed.position_groups : Len(detailed.position_groups[pos]) >= 2
    /\ \E pos \in DOMAIN detailed.position_groups : Len(detailed.position_groups[pos]) = 1

\* ------------------------------------------------------------------------
\* C6: 1 <= uniquePositions <= N, and uniquePositions = N exactly when no two
\* taps share an integer position (every position group has size 1).
\* ------------------------------------------------------------------------
C6_UniquePositionsRange ==
    /\ (compensation.called /\ ~compensation.early_exit) =>
          LET u == Cardinality(compensation.unique_positions)
          IN /\ 1 <= u /\ u <= tap_count
             /\ u = tap_count <=> ~SharePosition(compensation.tap_delays)
    /\ detailed.called =>
          LET u == Cardinality(DOMAIN detailed.position_groups)
          IN /\ 1 <= u /\ u <= tap_count
             /\ u = tap_count <=> ~SharePosition(detailed.tap_delays)
             /\ u = tap_count <=>
                   \A pos \in DOMAIN detailed.position_groups :
                       Len(detailed.position_groups[pos]) = 1
    /\ clustering.called =>
          /\ 1 <= clustering.unique_positions /\ clustering.unique_positions <= tap_count
          /\ clustering.unique_positions = tap_count <=> ~SharePosition(clustering.tap_delays)

\* The full compensation path with some, but not all, taps sharing positions.
C6_Witness ==
    /\ compensation.called /\ ~compensation.early_exit
    /\ 1 < Cardinality(compensation.unique_positions)
    /\ Cardinality(compensation.unique_positions) < tap_count

\* ------------------------------------------------------------------------
\* C7: gainMultiplication = effectiveGain / N is at least uniquePositions / N.
\* ------------------------------------------------------------------------
C7_GainMultiplicationLowerBound ==
    detailed.called =>
        /\ RLeq(<<Cardinality(DOMAIN detailed.position_groups), 1>>,
                RTimesInt(detailed.gain_multiplication, tap_count))
        /\ RLeq(<<Cardinality(DOMAIN detailed.position_groups), 1>>,
                detailed.total_effective_gain)

\* Clustered taps whose gainMultiplication lies strictly between the bound and 1.
C7_Witness ==
    /\ detailed.called
    /\ \E pos \in DOMAIN detailed.position_groups : Len(detailed.position_groups[pos]) >= 2
    /\ RLt(<<Cardinality(DOMAIN detailed.position_groups), 1>>,
           RTimesInt(detailed.gain_multiplication, tap_count))
    /\ RLt(detailed.gain_multiplication, <<1, 1>>)

\* ------------------------------------------------------------------------
\* C8 as stated: whenever two taps share an integer position,
\* gainMultiplication is strictly less than 1.0; it is 1.0 when all positions
\* are distinct.
\* ------------------------------------------------------------------------
C8_Original ==
    detailed.called =>
        /\ SharePosition(detailed.tap_delays) => RLt(detailed.gain_multiplication, <<1, 1>>)
        /\ ~SharePosition(detailed.tap_delays) => detailed.gain_multiplication = <<1, 1>>

\* Two taps share an integer position and differ in their fractional offset.
ShareWithDifferentFraction(tap_delays) ==
    \E j, k \in DOMAIN tap_delays :
        /\ j < k
        /\ tap_delays[j] \div SubSample = tap_delays[k] \div SubSample
        /\ tap_delays[j] # tap_delays[k]

\* C8 amended: gainMultiplication never exceeds 1.0; it is strictly less than
\* 1.0 when two taps that share an integer position differ in their fractional
\* offset, and 1.0 otherwise: when all positions are distinct, and also when
\* the taps sharing a position have equal fractions (comb size 0: all taps at
\* delay 0).
C8_BelowOneIffFractionsDiffer ==
    detailed.called =>
        /\ RLeq(detailed.gain_multiplication, <<1, 1>>)
        /\ ShareWithDifferentFraction(detailed.tap_delays)
              => RLt(detailed.gain_multiplication, <<1, 1>>)
        /\ ~ShareWithDifferentFraction(detailed.tap_delays)
              => detailed.gain_multiplication = <<1, 1>>
        /\ (comb_size = 0 /\ tap_count >= 2) =>
              /\ SharePosition(detailed.tap_delays)
              /\ detailed.gain_multiplication = <<1, 1>>

\* Comb size 0 with several taps: one position group, gainMultiplication 1.0.
C8_Witness ==
    /\ detailed.called
    /\ comb_size = 0 /\ tap_count >= 2
    /\ Cardinality(DOMAIN detailed.position_groups) = 1
    /\ detailed.gain_multiplication = <<1, 1>>

\* ------------------------------------------------------------------------
\* C9 as stated: at 44100 Hz, comb size 0.1 ms, N = 64, pattern 0 the total
\* delay is 4.41 samples, the taps occupy at most 5 integer positions, the
\* analyzer's gainMultiplication exceeds 2.0, and the adaptive gain is between
\* 10 and 16 dB below 1/64 and at least 0.1/64.
\* ------------------------------------------------------------------------
WorstLinearCase == comb_size = 10 /\ tap_count = 64 /\ pattern_id = 0

\* 10^(-10/20) and 10^(-16/20), to five decimals
TenDbDown == <<31623, 100000>>
SixteenDbDown == <<15849, 100000>>

C9_Original ==
    WorstLinearCase =>
        /\ detailed.called =>
              /\ detailed.delay_samples * 100 = 441 * DelayScale
              /\ Cardinality(DOMAIN detailed.position_groups) <= 5
              /\ RLt(<<2, 1>>, detailed.gain_multiplication)
        /\ clustering.called =>
              /\ clustering.delay_samples * 100 = 441 * DelayScale
              /\ clustering.unique_positions <= 5
        /\ gain_mult.called => RLt(<<2, 1>>, gain_mult.value)
        /\ compensation.called =>
              /\ RLeq(RTimesInt(compensation.adaptive_density_gain, 64), TenDbDown)
              /\ RLeq(SixteenDbDown, RTimesInt(compensation.adaptive_density_gain, 64))
              /\ RLeq(<<1, 640>>, compensation.adaptive_density_gain)

\* ------------------------------------------------------------------------
\* C10: N = 1, for every comb size and pattern: one position group,
\* effectiveGain = gainMultiplication = 1.0, adjacentCorrelation = 0, and the
\* compensation returns adaptiveGain = baseGain = 1 with adaptiveFactor 1.0 on
\* the early-exit path and on the full path.
\* ------------------------------------------------------------------------
C10_SingleTap ==
    tap_count = 1 =>
        /\ compensation.called =>
              /\ compensation.adaptive_density_gain = <<1, 1>>
              /\ compensation.adaptive_factor = ExpScale
              /\ ~compensation.early_exit =>
                    /\ Cardinality(compensation.unique_positions) = 1
                    /\ compensation.total_correlation = 0
        /\ detailed.called =>
              /\ Cardinality(DOMAIN detailed.position_groups) = 1
              /\ detailed.total_effective_gain = <<1, 1>>
              /\ detailed.gain_multiplication = <<1, 1>>
        /\ clustering.called =>
              /\ clustering.unique_positions = 1
              /\ clustering.correlations = << >>
              /\ clustering.avg_correlation = 0
        /\ gain_mult.called => gain_mult.value = <<1, 1>>

\* One tap, a comb size above 0, the full (non-early-exit) path.
C10_Witness ==
    /\ tap_count = 1 /\ comb_size > 0
    /\ compensation.called /\ ~compensation.early_exit
    /\ compensation.adaptive_density_gain = <<1, 1>>

\* ------------------------------------------------------------------------
\* C11: for every N in 1..64 and every pattern the ratio of the last active
\* tap is at most 1.0, and for the patterns 0, 2, 3, 4 and 6..15 the ratio is
\* non-decreasing in the tap index, so the tap delays are non-decreasing.
\* ------------------------------------------------------------------------
MonotonePatterns == {0, 2, 3, 4} \cup (6..(kNumCombPatterns - 1))

C11_LastRatioAtMostOneAndMonotone ==
    detailed.called =>
        /\ TapRatio(tap_count - 1, pattern_id) <= RatioScale
        /\ detailed.tap_delays[tap_count] <= detailed.delay_samples * RatioScale
        /\ pattern_id \in MonotonePatterns =>
              \A k \in 2..tap_count :
                  /\ TapRatio(k - 2, pattern_id) <= TapRatio(k - 1, pattern_id)
                  /\ detailed.tap_delays[k - 1] <= detailed.tap_delays[k]

\* A power pattern with all 64 taps: the last tap at the full comb size.
C11_Witness ==
    /\ detailed.called
    /\ pattern_id \in 6..(kNumCombPatterns - 1) /\ tap_count = MAX_TAPS
    /\ comb_size > 0
    /\ detailed.tap_delays[tap_count] = detailed.delay_samples * RatioScale
    /\ detailed.tap_delays[1] < detailed.tap_delays[tap_count]

\* ------------------------------------------------------------------------
\* C12 as stated: for every valid input the tap ratio lies in (0, 1]: strictly
\* greater than 0 and at most 1.
\* ------------------------------------------------------------------------
C12_Original ==
    detailed.called =>
        \A k \in 1..tap_count :
            /\ TapRatio(k - 1, pattern_id) > 0
            /\ TapRatio(k - 1, pattern_id) <= RatioScale

\* C12 amended: the tap ratio lies in [0, 1]; it is 0 for pattern 1 at tap
\* index 0 (log(1) / log(64)) and strictly greater than 0 for every other input.
C12_RatioInClosedUnitInterval ==
    detailed.called =>
        \A k \in 1..tap_count :
            /\ 0 <= TapRatio(k - 1, pattern_id)
            /\ TapRatio(k - 1, pattern_id) <= RatioScale
            /\ TapRatio(k - 1, pattern_id) = 0 <=> (pattern_id = 1 /\ k = 1)
            /\ detailed.tap_delays[k] = detailed.delay_samples * TapRatio(k - 1, pattern_id)

\* The logarithmic pattern with several taps: the first at 0, the others above.
C12_Witness ==
    /\ detailed.called
    /\ pattern_id = 1 /\ tap_count >= 2 /\ comb_size > 0
    /\ detailed.tap_delays[1] = 0
    /\ detailed.tap_delays[2] > 0

\* ------------------------------------------------------------------------
\* C13: for pattern 1 (logarithmic) the first tap has ratio exactly 0 for every
\* tap count, so for every comb size its delay is 0 samples, its integer
\* position is 0 and its fraction is 0.
\* ------------------------------------------------------------------------
C13_LogFirstTapAtZero ==
    (detailed.called /\ pattern_id = 1) =>
        /\ TapRatio(0, pattern_id) = 0
        /\ detailed.tap_delays[1] = 0
        /\ 0 \in DOMAIN detailed.position_groups
        /\ detailed.position_groups[0][1] = [tap_index |-> 0, delay |-> 0, fraction |-> 0]

\* The largest comb size of the scripts: the first logarithmic tap is still at 0.
C13_Witness ==
    /\ detailed.called /\ pattern_id = 1
    /\ comb_size = 1000 /\ tap_count = MAX_TAPS
    /\ detailed.position_groups[0][1].tap_index = 0
    /\ detailed.position_groups[0][1].delay = 0

\* ------------------------------------------------------------------------
\* C15 as stated: the returned gain is continuous across the early-exit
\* threshold: for pattern 0 and N in 2..64, a TapSet on the full path with
\* delaySamples just below 2N (here: at least 95% of 2N) has uniquePositions = N
\* and an adaptiveFactor of approximately 1.0 (here: at most 1.1), close to the
\* 1/N returned just above 2N.
\* ------------------------------------------------------------------------
JustBelowThreshold ==
    /\ comb_size * SAMPLE_RATE <= 2 * tap_count * 100000
    /\ comb_size * SAMPLE_RATE * 100 >= 95 * 2 * tap_count * 100000

C15_Original ==
    (compensation.called /\ pattern_id = 0 /\ tap_count >= 2 /\ JustBelowThreshold) =>
        /\ ~compensation.early_exit
        /\ Cardinality(compensation.unique_positions) = tap_count
        /\ compensation.adaptive_factor * 10 <= 11 * ExpScale

\* ------------------------------------------------------------------------
\* C17 as stated: the test case "Large delay - should use standard 1/N"
\* (2.0 ms, 64 taps, pattern 0) returns the standard compensation: adaptive
\* gain exactly 1/64 with factor 1.0, like the 10 ms case.
\* ------------------------------------------------------------------------
LargeDelayCase == comb_size = 200 /\ tap_count = 64 /\ pattern_id = 0

C17_Original ==
    (compensation.called /\ LargeDelayCase) =>
        /\ compensation.adaptive_density_gain = <<1, 64>>
        /\ compensation.adaptive_factor = ExpScale

\* ------------------------------------------------------------------------
\* C18: on the full path adjacentCorrelation is in [0, 1] (0 when N = 1),
\* correlationFactor in [1, 3], positionClusteringFactor in [1, N],
\* adaptiveFactor at least 1 and at most sqrt(3N); so the upper clamp at
\* baseGain never changes the value.
\* ------------------------------------------------------------------------
C18_FactorsBounded ==
    (compensation.called /\ ~compensation.early_exit) =>
        LET average_correlation ==
                AverageCorrelation(compensation.total_correlation, tap_count)
            correlation_factor == CorrelationFactor(average_correlation)
            position_clustering_factor ==
                PositionClusteringFactor(tap_count, compensation.unique_positions)
            adaptive_factor == compensation.adaptive_factor
            unclamped == RNorm(ExpScale, tap_count * adaptive_factor)
        IN /\ 0 <= average_correlation /\ average_correlation <= ExpScale
           /\ tap_count = 1 => average_correlation = 0
           /\ ExpScale <= correlation_factor /\ correlation_factor <= 3 * ExpScale
           /\ ExpScale <= position_clustering_factor
           /\ position_clustering_factor <= tap_count * ExpScale
           /\ adaptive_factor = AdaptiveFactor(position_clustering_factor, correlation_factor)
           /\ ExpScale <= adaptive_factor
           /\ adaptive_factor * adaptive_factor <= 3 * tap_count * ExpScale * ExpScale
           /\ RLeq(unclamped, <<1, tap_count>>)
           /\ compensation.adaptive_density_gain = RMax(<<1, 10 * tap_count>>, unclamped)

\* Clustered and correlated taps: both factors above 1, the gain below 1/N and
\* above the lower clamp.
C18_Witness ==
    /\ compensation.called /\ ~compensation.early_exit
    /\ Cardinality(compensation.unique_positions) < tap_count
    /\ compensation.total_correlation > 0
    /\ compensation.adaptive_factor > ExpScale
    /\ RLt(compensation.adaptive_density_gain, <<1, tap_count>>)
    /\ RLt(<<1, 10 * tap_count>>, compensation.adaptive_density_gain)

\* ------------------------------------------------------------------------
\* C19 as stated: for every TapSet adaptiveGain * adaptiveFactor = baseGain
\* = 1/N, including when the clamp to 0.1 * baseGain is active.
\* ------------------------------------------------------------------------
C19_Original ==
    compensation.called =>
        compensation.adaptive_density_gain[1] * compensation.adaptive_factor * tap_count
            = compensation.adaptive_density_gain[2] * ExpScale

\* ------------------------------------------------------------------------
\* C20 as stated: recommend_max_taps returns test_taps - 1 for the first tap
\* count whose linear-pattern gainMultiplication exceeds 3.0 and 64 if none
\* does; the result is in 0..64, and for a comb size at which 64 linear taps
\* collapse onto a handful of integer positions (0.1 ms) it is below 64.
\* ------------------------------------------------------------------------
C20_Original ==
    max_taps.called =>
        /\ max_taps.value \in 0..MAX_TAPS
        /\ max_taps.value = MAX_TAPS \/ detailed.num_taps < max_taps.value
              => ~ExceedsSafeClustering(detailed.gain_multiplication)
        /\ comb_size = 10 => max_taps.value < MAX_TAPS

\* ------------------------------------------------------------------------
\* C14: compensate is deterministic and shares no mutable state between calls:
\* two calls with an identical TapSet return identical (adaptiveGain,
\* adaptiveFactor), and calls for different TapSets interleaved in any order
\* each return the result of the call run alone.
\* ------------------------------------------------------------------------
\* What the call returns when it runs alone.
ResultAlone(f) ==
    LET alone == simulate_adaptive_compensation(f.comb_size_hundredths, f.num_taps, f.pattern)
    IN <<alone.adaptive_density_gain, alone.adaptive_factor>>

SameTapSet(f, g) ==
    /\ f.comb_size_hundredths = g.comb_size_hundredths
    /\ f.num_taps = g.num_taps
    /\ f.pattern = g.pattern

C14_CallsIndependent ==
    /\ \A c \in DOMAIN calls :
          calls[c].pc = "returned" => calls[c].result = ResultAlone(calls[c])
    /\ \A c, d \in DOMAIN calls :
          (calls[c].pc = "returned" /\ calls[d].pc = "returned" /\ SameTapSet(calls[c], calls[d]))
              => calls[c].result = calls[d].result

\* Two calls on the full path for different TapSets, each of which took steps
\* while the other was inside its loop, have returned different results.
C14_Witness ==
    /\ Len(calls) = 2
    /\ calls[1].pc = "returned" /\ calls[2].pc = "returned"
    /\ ~SameTapSet(calls[1], calls[2])
    /\ calls[1].overlapped /\ calls[2].overlapped
    /\ calls[1].tap_delays # << >> /\ calls[2].tap_delays # << >>
    /\ calls[1].unique_positions # calls[2].unique_positions
    /\ calls[1].result # calls[2].result

\* C16: simulate_adaptive_compensation, analyze_tap_clustering and
\* analyze_clustering_detailed compute, for the same TapSet, the same delay and
\* the same integer position for every tap, hence the same number of unique
\* positions.
SamePlacement(k) ==
    /\ placement.test_delays[k] = placement.clustering_delays[k]
    /\ placement.clustering_delays[k] = placement.detailed_delays[k]
    /\ placement.test_positions[k] = placement.clustering_positions[k]
    /\ placement.clustering_positions[k] = placement.detailed_positions[k]

Range(f) == {f[k] : k \in DOMAIN f}

C16_Original ==
    placement.called /\ ~placement.early_exit =>
        /\ \A k \in 1..placement.tap : SamePlacement(k)
        /\ Cardinality(placement.unique_positions)
              = Cardinality(Range(placement.clustering_positions))
        /\ Cardinality(placement.unique_positions)
              = Cardinality(Range(placement.detailed_positions))

\* C21: for two adjacent taps that share an integer position, the recorded
\* weight_similarity is 1.0 when their fractions are equal and strictly less
\* than 1.0 when they differ; the average is 0 when no adjacent pair shares a
\* position.
C21_Original ==
    interp_artifacts.called =>
        /\ \A i \in DOMAIN interp_artifacts.artifacts :
              /\ clustering.tap_fractions[i] = clustering.tap_fractions[i + 1]
                    => interp_artifacts.artifacts[i] = WeightScale
              /\ clustering.tap_fractions[i] # clustering.tap_fractions[i + 1]
                    => interp_artifacts.artifacts[i] < WeightScale
        /\ DOMAIN interp_artifacts.artifacts = {}
              => interp_artifacts.avg_artifact = <<0, 1>>
====
